---- MODULE Spec2Model ----
(***************************************************************************)
(* A model of the AI-orchestration layer of the STEM solver application:   *)
(* the search-and-verify pipeline (performSearch), the video job poller    *)
(* (generateExplanationVideo) with the credential retry of                 *)
(* handleGenerateVideo, the per-language translation caches of the two     *)
(* result views, and the bounded search history of the App component.      *)
(*                                                                         *)
(* Every handler is cut at its await points: one action per segment of     *)
(* code that runs without suspension (JavaScript runs such a segment       *)
(* atomically), the responses of the remote services being the inputs.     *)
(***************************************************************************)
EXTENDS Integers, Sequences, FiniteSets, Bags, TLC

(***************************************************************************)
(* Bounds of the model.                                                    *)
(***************************************************************************)
\* longest list of grounding chunks a search response carries
MaxChunks == 3
\* number of different query bodies the user may type
NumWords == 6
\* most handles reporting done=false that one video job hands out
MaxPolls == 3
\* most translation requests of one view in flight at a time
MaxInFlight == 2

\* The absent value (undefined / null / a missing field) of a string.
None == "<none>"

\* An optional object (T | null, T | undefined): absent, or the object.
Nothing == <<>>
Some(x) == <<x>>

(***************************************************************************)
(* Texts.  The empty string is a text like any other: JavaScript treats it *)
(* as false in `x || y` and `if (x)`, which Truthy models.                 *)
(***************************************************************************)
Truthy(s) == s # "" /\ s # None

\* JavaScript `a || b` on strings
OrElse(a, b) == IF Truthy(a) THEN a ELSE b

(***************************************************************************)
(* performSearch                                                           *)
(***************************************************************************)
VARIABLES
    apiKey,            \* process.env.API_KEY || ''
    psPc,              \* where the call of performSearch stands
    query,             \* its argument
    searchResponseText,\* searchResponse.text as the service sent it
    chunks,            \* groundingChunks of the Stage-1 response
    searchText,        \* Stage-1 answer (after the placeholder substitution)
    uniqueSources,     \* deduplicated sources
    verificationText,  \* Stage-2 text
    psRequests,        \* the requests issued so far, oldest first, each with
                       \* its outcome: "pending", "ok" or "failed"
    psResult,          \* the SearchResult returned, or None
    psError            \* the error thrown to the caller, or None

psVars == <<apiKey, psPc, query, searchResponseText, chunks, searchText, uniqueSources,
            verificationText, psRequests, psResult, psError>>

ApiKeys == {"", "KEY"}
Queries == {"q"}
Uris == {"uriA", "uriB"}
Titles == {"t1", "t2", "t3"}

\* A grounding chunk as the filter sees it: "" stands for a uri or title that
\* is empty or missing (chunk.web absent gives both).
Chunk == [uri : Uris \cup {""}, title : Titles \cup {""}]

RECURSIVE SeqsUpTo(_, _)
SeqsUpTo(S, n) ==
    IF n = 0 THEN {<<>>}
    ELSE LET shorter == SeqsUpTo(S, n - 1)
         IN  shorter \cup {Append(s, x) : s \in {t \in shorter : Len(t) = n - 1}, x \in S}

ChunkLists == SeqsUpTo(Chunk, MaxChunks)

SearchTexts == {"", "answer"}
VerifyTexts == {"", "verified"}
SearchErrors == {"403 Forbidden", "Requested entity was not found", "network error"}

NoResultsFound == "No results found."
CouldNotVerify == "Could not verify result at this time."
ApiKeyNotFound == "API Key not found"

\* a filter that asked for the uri only
AcceptedChunkUriOnly(c) == Truthy(c.uri)

\* chunks.filter(chunk => chunk.web?.uri && chunk.web?.title)
AcceptedChunk(c) == Truthy(c.uri) /\ Truthy(c.title)

\* .filter(...).map(chunk => ({uri, title}))
WebSources(cs) == SelectSeq(cs, AcceptedChunk)

(***************************************************************************)
(* new Map(entries): a Map keeps its keys in insertion order; setting a    *)
(* key that is already present replaces the value and leaves the key at    *)
(* its position.  A map is a sequence of <<key, value>> pairs here.        *)
(***************************************************************************)
MapHas(m, k) == \E i \in 1..Len(m) : m[i][1] = k

\* a Map that moved a key set again to the end
MapSetMoveToEnd(m, k, v) ==
    Append(SelectSeq(m, LAMBDA e : e[1] # k), <<k, v>>)

MapSet(m, k, v) ==
    IF MapHas(m, k)
    THEN [i \in 1..Len(m) |-> IF m[i][1] = k THEN <<k, v>> ELSE m[i]]
    ELSE Append(m, <<k, v>>)

RECURSIVE NewMap(_)
NewMap(entries) ==
    IF entries = <<>> THEN <<>>
    ELSE LET n == Len(entries)
         IN  MapSet(NewMap(SubSeq(entries, 1, n - 1)), entries[n][1], entries[n][2])

\* Array.from(map.values())
MapValues(m) == [i \in 1..Len(m) |-> m[i][2]]

\* Array.from(new Map(webSources.map(s => [s.uri, s])).values())
UniqueSources(ws) == MapValues(NewMap([i \in 1..Len(ws) |-> <<ws[i].uri, ws[i]>>]))

Request(kind) == [kind |-> kind, outcome |-> "pending"]

\* the pending request (the last one issued) gets its outcome
Settle(reqs, outcome) == [reqs EXCEPT ![Len(reqs)].outcome = outcome]

psInit ==
    /\ apiKey \in ApiKeys
    /\ psPc = "idle"
    /\ query = None
    /\ searchResponseText = None
    /\ chunks = <<>>
    /\ searchText = None
    /\ uniqueSources = <<>>
    /\ verificationText = None
    /\ psRequests = <<>>
    /\ psResult = None
    /\ psError = None

\* The call up to its first await: the key check, then the Stage-1 request.
PerformSearchCall ==
    /\ psPc = "idle"
    /\ \E q \in Queries :
        /\ query' = q
        /\ IF ~Truthy(apiKey)
           THEN /\ psPc' = "thrown"
                /\ psError' = ApiKeyNotFound
                /\ UNCHANGED psRequests
           ELSE /\ psPc' = "awaitSearch"
                /\ psRequests' = Append(psRequests, Request("search"))
                /\ UNCHANGED psError
    /\ UNCHANGED <<apiKey, searchResponseText, chunks, searchText, uniqueSources, verificationText, psResult>>

\* an outer catch that answered with an empty result
SearchCatchAbsorb(e) ==
    [thrown |-> FALSE, error |-> None,
     result |-> [text |-> NoResultsFound, webSources |-> <<>>, verification |-> ""]]

\* The outer catch of performSearch: log and rethrow.
SearchCatch(e) == [thrown |-> TRUE, error |-> e, result |-> None]

\* The Stage-1 request rejects.
SearchFails ==
    /\ psPc = "awaitSearch"
    /\ \E e \in SearchErrors :
        LET c == SearchCatch(e)
        IN  /\ psPc' = IF c.thrown THEN "thrown" ELSE "returned"
            /\ psError' = c.error
            /\ psResult' = c.result
    /\ psRequests' = Settle(psRequests, "failed")
    /\ UNCHANGED <<apiKey, query, searchResponseText, chunks, searchText,
                   uniqueSources, verificationText>>

\* a Stage 1 that took a response without text for a failure
SearchRespondsOrThrows ==
    /\ psPc = "awaitSearch"
    /\ \E t \in SearchTexts, cs \in ChunkLists :
        /\ searchResponseText' = t
        /\ chunks' = cs
        /\ searchText' = t
        /\ uniqueSources' = UniqueSources(WebSources(cs))
        /\ IF Truthy(t)
           THEN /\ psRequests' = Append(Settle(psRequests, "ok"),
                                        [kind |-> "verify", outcome |-> "pending",
                                         answer |-> t])
                /\ psPc' = "awaitVerify"
                /\ UNCHANGED psError
           ELSE /\ psRequests' = Settle(psRequests, "ok")
                /\ psPc' = "thrown"
                /\ psError' = NoResultsFound
    /\ verificationText' = ""
    /\ UNCHANGED <<apiKey, query, psResult>>

\* The Stage-1 response arrives: text, sources, then the verification
\* request, whose prompt quotes the query and searchText as the answer.
SearchResponds ==
    /\ psPc = "awaitSearch"
    /\ \E t \in SearchTexts, cs \in ChunkLists :
        LET answer == OrElse(t, NoResultsFound)
        IN  /\ searchResponseText' = t
            /\ chunks' = cs
            /\ searchText' = answer
            /\ uniqueSources' = UniqueSources(WebSources(cs))
            /\ psRequests' = Append(Settle(psRequests, "ok"),
                                    [kind |-> "verify", outcome |-> "pending",
                                     answer |-> answer])
    /\ verificationText' = ""
    /\ psPc' = "awaitVerify"
    /\ UNCHANGED <<apiKey, query, psResult, psError>>

SearchResultOf(vt) ==
    [text |-> searchText, webSources |-> uniqueSources, verification |-> vt]

\* The verification response arrives.
VerifyResponds ==
    /\ psPc = "awaitVerify"
    /\ \E t \in VerifyTexts :
        /\ verificationText' = OrElse(t, "")
        /\ psResult' = SearchResultOf(OrElse(t, ""))
    /\ psPc' = "returned"
    /\ psRequests' = Settle(psRequests, "ok")
    /\ UNCHANGED <<apiKey, query, searchResponseText, chunks, searchText,
                   uniqueSources, psError>>

\* an inner catch that rethrew
VerifyCatchRethrow(e) == [thrown |-> TRUE, text |-> None]

\* What the inner catch does with a failed verification.
VerifyCatch(e) == [thrown |-> FALSE, text |-> CouldNotVerify]

\* The verification request rejects.
VerifyFails ==
    /\ psPc = "awaitVerify"
    /\ \E e \in SearchErrors :
        LET c == VerifyCatch(e)
        IN  IF c.thrown
            THEN /\ psPc' = "thrown"
                 /\ psError' = e
                 /\ UNCHANGED <<verificationText, psResult>>
            ELSE /\ psPc' = "returned"
                 /\ verificationText' = c.text
                 /\ psResult' = SearchResultOf(c.text)
                 /\ UNCHANGED psError
    /\ psRequests' = Settle(psRequests, "failed")
    /\ UNCHANGED <<apiKey, query, searchResponseText, chunks, searchText, uniqueSources>>


(***************************************************************************)
(* The search history of the App component                                 *)
(*                                                                         *)
(* A query string is a sequence of tokens: runs of whitespace around a     *)
(* body.  A token is one whitespace character or one body; trim() never    *)
(* looks inside a body, so a body is a single token.                       *)
(***************************************************************************)
VARIABLES
    searchHistory,     \* useState<string[]>: most recent first
    storedHistory,     \* localStorage['dolphin_search_history'], if the key is set
    lastCall           \* the last call made on the history: its argument, and
                       \* the length of the history it found and whether that
                       \* history held the trimmed argument

hsVars == <<searchHistory, storedHistory, lastCall>>

Space == " "
WordNames == <<"w1", "w2", "w3", "w4", "w5", "w6", "w7", "w8">>
Words == {WordNames[i] : i \in 1..NumWords}
Pads == {<<>>, <<Space>>}
Bodies == {<<>>} \cup {<<w>> : w \in Words}
RawQueries == {l \o b \o t : l \in Pads, b \in Bodies, t \in Pads}

RECURSIVE TrimStart(_)
TrimStart(s) ==
    IF s # <<>> /\ Head(s) = Space THEN TrimStart(Tail(s)) ELSE s

RECURSIVE TrimEnd(_)
TrimEnd(s) ==
    IF s # <<>> /\ s[Len(s)] = Space THEN TrimEnd(SubSeq(s, 1, Len(s) - 1)) ELSE s

\* a trim that left the trailing blanks
TrimStartOnly(s) == TrimStart(s)

\* String.prototype.trim
Trim(s) == TrimEnd(TrimStart(s))

\* the cap of .slice(0, 5)
HistoryMax == 5

\* prev.filter(q => q !== cleanQuery)
Without(prev, q) == SelectSeq(prev, LAMBDA x : x # q)

\* arr.slice(0, n)
SliceFront(arr, n) == SubSeq(arr, 1, IF Len(arr) < n THEN Len(arr) ELSE n)

\* an updater that did not remove the earlier entry of the query
NewHistoryKeepingDuplicate(prev, cleanQuery) ==
    SliceFront(<<cleanQuery>> \o prev, HistoryMax)

\* [cleanQuery, ...prev.filter(q => q !== cleanQuery)].slice(0, 5)
NewHistory(prev, cleanQuery) ==
    SliceFront(<<cleanQuery>> \o Without(prev, cleanQuery), HistoryMax)

\* JSON.stringify of a string array, and JSON.parse of what it wrote
Stringify(h) == [json |-> "array", items |-> h]
Parse(j) == j.items

hsInit ==
    /\ searchHistory = <<>>
    /\ storedHistory = Nothing
    /\ lastCall = [op |-> "none", arg |-> <<>>, lenBefore |-> 0, held |-> FALSE]

\* an addToHistory that did not write the store
AddToHistoryNotStored ==
    \E q \in RawQueries :
        LET cleanQuery == Trim(q)
        IN  /\ lastCall' = [op |-> "addToHistory", arg |-> q,
                          lenBefore |-> Len(searchHistory),
                          held |-> \E i \in 1..Len(searchHistory) :
                                      searchHistory[i] = cleanQuery]
            /\ IF cleanQuery = <<>>
               THEN UNCHANGED <<searchHistory, storedHistory>>
               ELSE /\ searchHistory' = NewHistory(searchHistory, cleanQuery)
                    /\ UNCHANGED storedHistory

\* addToHistory(query)
AddToHistory ==
    \E q \in RawQueries :
        LET cleanQuery == Trim(q)
        IN  /\ lastCall' = [op |-> "addToHistory", arg |-> q,
                          lenBefore |-> Len(searchHistory),
                          held |-> \E i \in 1..Len(searchHistory) :
                                      searchHistory[i] = cleanQuery]
            /\ IF cleanQuery = <<>>
               THEN UNCHANGED <<searchHistory, storedHistory>>
               ELSE /\ searchHistory' = NewHistory(searchHistory, cleanQuery)
                    /\ storedHistory' = Some(Stringify(NewHistory(searchHistory, cleanQuery)))

\* clearHistory()
ClearHistory ==
    /\ searchHistory' = <<>>
    /\ storedHistory' = Nothing
    /\ lastCall' = [op |-> "clearHistory", arg |-> <<>>,
                    lenBefore |-> Len(searchHistory), held |-> FALSE]


(***************************************************************************)
(* Video generation: generateExplanationVideo and handleGenerateVideo      *)
(*                                                                         *)
(* One generate-video action runs at a time here: the button that starts   *)
(* it is rendered only while videoStatus is 'idle' or 'error'.  The        *)
(* credential dialog (openSelectKey) is taken to resolve once opened.      *)
(***************************************************************************)
VARIABLES
    hasAistudio,       \* window.aistudio && window.aistudio.openSelectKey
    apiKeySelected,    \* useState<boolean>: the credential flag
    errorMsg,          \* useState<string>
    status,            \* useState<AppStatus>
    solution,          \* useState<SolutionData | null>
    videoStatus,       \* useState: 'idle' | 'generating' | 'completed' | 'error'
    videoUri,          \* useState<string | undefined>
    hvPc,              \* where the running handleGenerateVideo stands
    attempt,           \* 1: first call of generateExplanationVideo, 2: the retry
    closure,           \* what the handler captured when it was clicked
    operation,         \* the latest operation handle of the running call
    gvResult,          \* how the last call of generateExplanationVideo ended
    gvCount,           \* requests, waits and done=false reports of that call
    hvCount,           \* submissions and credential dialogs of this action
    firstError,        \* the error that ended attempt 1, or None
    statusTrace        \* the values this action gave videoStatus, in order

appVars == <<hasAistudio, apiKeySelected, errorMsg, status, solution, videoStatus, videoUri>>
hvVars == <<hvPc, attempt, closure, operation, gvResult, gvCount, hvCount,
            firstError, statusTrace>>

SolutionTexts == {"", "**Step 1: Given** $m = 10$"}
VisualPrompts == {"", "a ball rolling down an incline"}
VideoUris == {"https://video/1?alt=media", "https://video/2?alt=media"}
EntityNotFoundMessage == "Requested entity was not found"
NoVideoMessage == "Video generation failed or returned no URI"
VideoErrors == {EntityNotFoundMessage, "404 Not Found", "quota exceeded"}
ErrorMsgs == {"", ApiKeyNotFound, "Search failed. Please try again."}

\* An operation handle: its done flag and, once done, the first generated
\* video's uri ("" when operation.response?.generatedVideos?.[0]?.video?.uri
\* is missing).
Operations ==
    {[done |-> FALSE, uri |-> ""]} \cup [done : {TRUE}, uri : VideoUris \cup {""}]

\* `${videoUri}&key=${apiKey}`: the pieces of the concatenation
VideoReference(uri, key) == <<uri, "&key=", key>>

\* a loop condition with the negation lost
LoopConditionInverted(op) == op.done

\* while (!operation.done)
LoopCondition(op) == ~op.done

\* a test that took every error for the signal
IsAnyError(e) == TRUE

\* errorMessage.includes("Requested entity was not found") ||
\* errorString.includes("Requested entity was not found") || errorString.includes("404")
IsEntityNotFound(e) == e \in {EntityNotFoundMessage, "404 Not Found"}

\* a catch that ran its retry branch for the error of any attempt
RetryBranchAnyAttempt(att, e) == IsEntityNotFound(e)

\* The catch of handleGenerateVideo runs its retry branch for the error of
\* the first attempt only; the retry's own catch just logs.
RetryBranch(att, e) == att = 1 /\ IsEntityNotFound(e)

\* errorMsg.includes("API Key")
MentionsApiKey(m) == m = ApiKeyNotFound

NoCount == [submits |-> 0, waits |-> 0, statusRequests |-> 0, notDone |-> 0]

appInit ==
    /\ hasAistudio \in BOOLEAN
    /\ apiKeySelected \in BOOLEAN
    /\ errorMsg \in ErrorMsgs
    /\ status = "SOLVED"
    /\ solution \in {Some(d) : d \in [solutionMarkdown : SolutionTexts,
                                       visualPrompt : VisualPrompts,
                                       confidence : {"High"}]}
    /\ videoStatus = "idle"
    /\ videoUri = Nothing

hvInit ==
    /\ hvPc = "idle"
    /\ attempt = 1
    /\ closure = [apiKeySelected |-> FALSE, errorMsg |-> "", visualPrompt |-> ""]
    /\ operation = Nothing
    /\ gvResult = [kind |-> "none", uri |-> Nothing, error |-> None]
    /\ gvCount = NoCount
    /\ hvCount = [submissions |-> 0, selections |-> 0]
    /\ firstError = None
    /\ statusTrace = <<>>

\* setVideoStatus('generating') and the call of generateExplanationVideo up
\* to its await of ai.models.generateVideos: attempt att begins.
BeginAttempt(att, count, trace) ==
    /\ attempt' = att
    /\ videoStatus' = "generating"
    /\ statusTrace' = Append(trace, "generating")
    /\ operation' = Nothing
    /\ gvResult' = [kind |-> "pending", uri |-> Nothing, error |-> None]
    /\ gvCount' = [NoCount EXCEPT !.submits = 1]
    /\ hvCount' = [count EXCEPT !.submissions = @ + 1]
    /\ hvPc' = "awaitSubmit"

\* The user clicks the generate (or retry) button: handleGenerateVideo up to
\* its first await.
GenerateVideoClick ==
    /\ hvPc = "idle"
    /\ status = "SOLVED" /\ solution # Nothing
    /\ videoStatus \in {"idle", "error"}
    /\ Truthy(solution[1].visualPrompt)
    /\ closure' = [apiKeySelected |-> apiKeySelected, errorMsg |-> errorMsg,
                   visualPrompt |-> solution[1].visualPrompt]
    /\ firstError' = None
    /\ IF ~apiKeySelected /\ hasAistudio
       THEN \* handleSelectKey awaits the credential dialog
            /\ hvPc' = "selectKey"
            /\ attempt' = 1
            /\ hvCount' = [submissions |-> 0, selections |-> 1]
            /\ statusTrace' = <<>>
            /\ UNCHANGED <<videoStatus, operation, gvResult, gvCount>>
       ELSE BeginAttempt(1, [submissions |-> 0, selections |-> 0], <<>>)
    /\ UNCHANGED <<hasAistudio, apiKeySelected, errorMsg, status, solution, videoUri>>

\* openSelectKey resolves: the rest of handleSelectKey, then the attempt the
\* handler was about to make.
SelectKeyDone ==
    /\ hvPc = "selectKey"
    /\ apiKeySelected' = TRUE
    /\ errorMsg' = IF MentionsApiKey(closure.errorMsg) THEN "" ELSE errorMsg
    /\ BeginAttempt(IF firstError = None THEN 1 ELSE 2, hvCount, statusTrace)
    /\ UNCHANGED <<hasAistudio, status, solution, videoUri, closure, firstError>>

\* a try block that set the status and forgot the uri
CallReturnsStatusOnly(uri) ==
    /\ gvResult' = [kind |-> "returned", uri |-> Some(VideoReference(uri, apiKey)),
                    error |-> None]
    /\ videoStatus' = "completed"
    /\ statusTrace' = Append(statusTrace, "completed")
    /\ hvPc' = "idle"
    /\ UNCHANGED <<hasAistudio, apiKeySelected, errorMsg, status, solution, videoUri,
                   attempt, closure, hvCount, firstError>>

\* generateExplanationVideo returns: the rest of the try block.
CallReturns(uri) ==
    /\ gvResult' = [kind |-> "returned", uri |-> Some(VideoReference(uri, apiKey)),
                    error |-> None]
    /\ videoUri' = Some(VideoReference(uri, apiKey))
    /\ videoStatus' = "completed"
    /\ statusTrace' = Append(statusTrace, "completed")
    /\ hvPc' = "idle"
    /\ UNCHANGED <<hasAistudio, apiKeySelected, errorMsg, status, solution,
                   attempt, closure, hvCount, firstError>>

\* a catch that cleared the flag for the error of the retry as well
CallThrowsInspectingRetry(e) ==
    /\ gvResult' = [kind |-> "thrown", uri |-> Nothing, error |-> e]
    /\ firstError' = IF attempt = 1 THEN e ELSE firstError
    /\ IF RetryBranch(attempt, e)
       THEN /\ apiKeySelected' = FALSE
            /\ IF hasAistudio
               THEN \* handleSelectKey awaits the credential dialog
                    /\ hvPc' = "selectKey"
                    /\ hvCount' = [hvCount EXCEPT !.selections = @ + 1]
                    /\ UNCHANGED <<videoStatus, statusTrace, attempt>>
               ELSE \* handleSelectKey does nothing; the retry follows
                    /\ hvPc' = "retryNow"
                    /\ UNCHANGED <<videoStatus, statusTrace, attempt, hvCount>>
       ELSE /\ videoStatus' = "error"
            /\ statusTrace' = Append(statusTrace, "error")
            /\ hvPc' = "idle"
            /\ apiKeySelected' = (apiKeySelected /\ ~IsEntityNotFound(e))
            /\ UNCHANGED <<attempt, hvCount>>
    /\ UNCHANGED <<hasAistudio, errorMsg, status, solution, videoUri, closure>>

\* generateExplanationVideo throws e: the catch of handleGenerateVideo.
CallThrows(e) ==
    /\ gvResult' = [kind |-> "thrown", uri |-> Nothing, error |-> e]
    /\ firstError' = IF attempt = 1 THEN e ELSE firstError
    /\ IF RetryBranch(attempt, e)
       THEN /\ apiKeySelected' = FALSE
            /\ IF hasAistudio
               THEN \* handleSelectKey awaits the credential dialog
                    /\ hvPc' = "selectKey"
                    /\ hvCount' = [hvCount EXCEPT !.selections = @ + 1]
                    /\ UNCHANGED <<videoStatus, statusTrace, attempt>>
               ELSE \* handleSelectKey does nothing; the retry follows
                    /\ hvPc' = "retryNow"
                    /\ UNCHANGED <<videoStatus, statusTrace, attempt, hvCount>>
       ELSE /\ videoStatus' = "error"
            /\ statusTrace' = Append(statusTrace, "error")
            /\ hvPc' = "idle"
            /\ UNCHANGED <<apiKeySelected, attempt, hvCount>>
    /\ UNCHANGED <<hasAistudio, errorMsg, status, solution, videoUri, closure>>

\* a call that returned the reference without looking at the uri
AfterHandleUnchecked(op) ==
    /\ operation' = Some(op)
    /\ IF LoopCondition(op)
       THEN /\ hvPc' = "waiting"
            /\ UNCHANGED <<appVars, attempt, closure, gvResult, hvCount,
                           firstError, statusTrace>>
       ELSE CallReturns(op.uri)

\* After a handle arrived: leave the loop with its result, or wait.
AfterHandle(op) ==
    /\ operation' = Some(op)
    /\ IF LoopCondition(op)
       THEN /\ hvPc' = "waiting"
            /\ UNCHANGED <<appVars, attempt, closure, gvResult, hvCount,
                           firstError, statusTrace>>
       ELSE IF Truthy(op.uri)
            THEN CallReturns(op.uri)
            ELSE CallThrows(NoVideoMessage)

CountHandle(op) == IF op.done THEN gvCount ELSE [gvCount EXCEPT !.notDone = @ + 1]

\* ai.models.generateVideos resolves with an operation handle.
SubmitResponds ==
    /\ hvPc = "awaitSubmit"
    /\ \E op \in Operations :
        /\ op.done \/ gvCount.notDone < MaxPolls
        /\ gvCount' = CountHandle(op)
        /\ AfterHandle(op)

\* ai.models.generateVideos rejects.
SubmitFails ==
    /\ hvPc = "awaitSubmit"
    /\ \E e \in VideoErrors : CallThrows(e)
    /\ UNCHANGED <<operation, gvCount>>

\* a poll loop that gave up when its timer fired
WaitElapsedGivesUp ==
    /\ hvPc = "waiting"
    /\ CallThrows("timed out")
    /\ UNCHANGED <<operation, gvCount>>

\* The 10 s timer fires: the status request on the latest handle is issued.
WaitElapsed ==
    /\ hvPc = "waiting"
    /\ gvCount' = [gvCount EXCEPT !.waits = @ + 1, !.statusRequests = @ + 1]
    /\ hvPc' = "awaitStatus"
    /\ UNCHANGED <<appVars, attempt, closure, operation, gvResult, hvCount,
                   firstError, statusTrace>>

\* ai.operations.getVideosOperation resolves with the refreshed handle.
StatusResponds ==
    /\ hvPc = "awaitStatus"
    /\ \E op \in Operations :
        /\ op.done \/ gvCount.notDone < MaxPolls
        /\ gvCount' = CountHandle(op)
        /\ AfterHandle(op)

\* ai.operations.getVideosOperation rejects.
StatusFails ==
    /\ hvPc = "awaitStatus"
    /\ \E e \in VideoErrors : CallThrows(e)
    /\ UNCHANGED <<operation, gvCount>>

\* The retry of the catch block when no credential dialog was awaited.
RetryNow ==
    /\ hvPc = "retryNow"
    /\ BeginAttempt(2, hvCount, statusTrace)
    /\ UNCHANGED <<hasAistudio, apiKeySelected, errorMsg, status, solution, videoUri,
                   closure, firstError>>


(***************************************************************************)
(* translateText, and the translation cache of SolutionViewer              *)
(*                                                                         *)
(* The language buttons of SolutionViewer stay clickable while a           *)
(* translation is in flight (the overlay covers the text column only), so  *)
(* several calls of handleLanguageChange may be suspended at once.  The    *)
(* view shows one solution from mount to unmount.                          *)
(***************************************************************************)
VARIABLES
    svLanguage,        \* useState<'English' | 'Hindi'>
    svTranslations,    \* useState<TranslationCache>: language -> text, None if unset
    svIsTranslating,   \* useState<boolean>
    svInFlight,        \* the translateText requests awaited, oldest first
    lastTranslate      \* "solution", "searchMain" or "searchVerify" when the last
                       \* thing either view did was to catch a failed translation
                       \* (of its text, of the main text, of the verification),
                       \* else "none"

svVars == <<svLanguage, svTranslations, svIsTranslating, svInFlight, lastTranslate>>

Languages == {"English", "Hindi"}
TargetLanguages == Languages \ {"English"}
TranslationTexts == {"", "hindi text 1", "hindi text 2"}

\* return response.text || text
Translated(responseText, text) == OrElse(responseText, text)

\* if (translations[newLang]) return;
Cached(cache, key) == Truthy(cache[key])

\* language === 'English' ? data.solutionMarkdown
\*                        : (translations[language] || data.solutionMarkdown)
\* the data prop of SolutionViewer: data.solutionMarkdown
SvData == solution[1].solutionMarkdown

ContentToDisplay ==
    IF svLanguage = "English" THEN SvData
    ELSE OrElse(svTranslations[svLanguage], SvData)

svInit ==
    /\ svLanguage = "English"
    /\ svTranslations = [l \in TargetLanguages |-> None]
    /\ svIsTranslating = FALSE
    /\ svInFlight = <<>>
    /\ lastTranslate = "none"

\* A click on a language button: handleLanguageChange up to its await.
SvLanguageClick ==
    \E newLang \in Languages :
        /\ newLang # svLanguage
        /\ IF newLang = "English" \/ Cached(svTranslations, newLang)
           THEN /\ svLanguage' = newLang
                /\ lastTranslate' = "none"
                /\ UNCHANGED <<svIsTranslating, svInFlight>>
           ELSE IF ~Truthy(apiKey)
           THEN \* translateText rejects at once: catch and finally follow
                /\ svLanguage' = "English"
                /\ svIsTranslating' = FALSE
                /\ lastTranslate' = "solution"
                /\ UNCHANGED svInFlight
           ELSE /\ Len(svInFlight) < MaxInFlight
                /\ svLanguage' = newLang
                /\ svIsTranslating' = TRUE
                /\ lastTranslate' = "none"
                /\ svInFlight' = Append(svInFlight, [lang |-> newLang, text |-> SvData])
        /\ UNCHANGED svTranslations

RemoveAt(seq, i) == SubSeq(seq, 1, i - 1) \o SubSeq(seq, i + 1, Len(seq))

\* A translation arrives: the cache entry is written, finally runs.
SvTranslateResponds ==
    \E i \in 1..Len(svInFlight), t \in TranslationTexts :
        /\ svTranslations' =
              [svTranslations EXCEPT ![svInFlight[i].lang] = Translated(t, svInFlight[i].text)]
        /\ svIsTranslating' = FALSE
        /\ svInFlight' = RemoveAt(svInFlight, i)
        /\ lastTranslate' = "none"
        /\ UNCHANGED svLanguage

\* a catch that left the language the user had chosen
SvTranslateFailsKeepsLanguage ==
    \E i \in 1..Len(svInFlight) :
        /\ svIsTranslating' = FALSE
        /\ svInFlight' = RemoveAt(svInFlight, i)
        /\ lastTranslate' = "solution"
        /\ UNCHANGED <<svLanguage, svTranslations>>

\* A translation fails: the view goes back to English, finally runs.
SvTranslateFails ==
    \E i \in 1..Len(svInFlight) :
        /\ svLanguage' = "English"
        /\ svIsTranslating' = FALSE
        /\ svInFlight' = RemoveAt(svInFlight, i)
        /\ lastTranslate' = "solution"
        /\ UNCHANGED svTranslations

(***************************************************************************)
(* The translation cache of SearchResults: the main text and the           *)
(* verification are translated one after the other and cached under the    *)
(* keys `${lang}_text` and `${lang}_verify`.  The buttons stay reachable   *)
(* from the keyboard under the overlay, so calls may overlap here too.     *)
(***************************************************************************)
VARIABLES
    searchResult,      \* useState<SearchResult | null> of App: the data prop
    srLanguage,        \* useState<'English' | 'Hindi'>
    srTranslations,    \* useState<TranslationCache>: key -> text, None if unset
    srIsTranslating,   \* useState<boolean>
    srInFlight         \* the suspended calls of handleLanguageChange

srVars == <<searchResult, srLanguage, srTranslations, srIsTranslating, srInFlight>>

\* `${newLang}_text` and `${newLang}_verify`
TextKey(lang) == <<lang, "_text">>
VerifyKey(lang) == <<lang, "_verify">>
CacheKeys == {TextKey(l) : l \in TargetLanguages} \cup {VerifyKey(l) : l \in TargetLanguages}

\* what performSearch can return as text and verification
ResultTexts == {OrElse(t, NoResultsFound) : t \in SearchTexts}
ResultVerifications == {OrElse(t, "") : t \in VerifyTexts} \cup {CouldNotVerify}

\* language === 'English' ? data.text : (translations[`${language}_text`] || data.text)
CurrentText ==
    IF srLanguage = "English" THEN searchResult[1].text
    ELSE OrElse(srTranslations[TextKey(srLanguage)], searchResult[1].text)

\* language === 'English' ? data.verification
\*                        : (translations[`${language}_verify`] || data.verification)
CurrentVerification ==
    IF srLanguage = "English" THEN searchResult[1].verification
    ELSE OrElse(srTranslations[VerifyKey(srLanguage)], searchResult[1].verification)

srInit ==
    /\ searchResult \in {Some(r) : r \in [text : ResultTexts, webSources : {<<>>},
                                           verification : ResultVerifications]}
    /\ srLanguage = "English"
    /\ srTranslations = [k \in CacheKeys |-> None]
    /\ srIsTranslating = FALSE
    /\ srInFlight = <<>>

\* A click on a language button: handleLanguageChange up to its first await.
SrLanguageClick ==
    \E newLang \in Languages :
        /\ searchResult # Nothing
        /\ newLang # srLanguage
        /\ IF newLang = "English" \/ Cached(srTranslations, TextKey(newLang))
           THEN /\ srLanguage' = newLang
                /\ lastTranslate' = "none"
                /\ UNCHANGED <<srIsTranslating, srInFlight>>
           ELSE IF ~Truthy(apiKey)
           THEN \* translateText rejects at once: catch and finally follow
                /\ srLanguage' = "English"
                /\ srIsTranslating' = FALSE
                /\ lastTranslate' = "searchMain"
                /\ UNCHANGED srInFlight
           ELSE /\ Len(srInFlight) < MaxInFlight
                /\ srLanguage' = newLang
                /\ srIsTranslating' = TRUE
                /\ lastTranslate' = "none"
                /\ srInFlight' = Append(srInFlight,
                       [lang |-> newLang, stage |-> "main", data |-> searchResult[1],
                        translatedMain |-> None])
        /\ UNCHANGED <<searchResult, srTranslations>>

\* setTranslations(prev => ({...prev, [textKey]: translatedMain,
\*                           ...(translatedVerify ? {[verifyKey]: translatedVerify} : {})}))
WithTranslations(prev, lang, translatedMain, translatedVerify) ==
    [k \in CacheKeys |->
        IF k = TextKey(lang) THEN translatedMain
        ELSE IF k = VerifyKey(lang) /\ Truthy(translatedVerify) THEN translatedVerify
        ELSE prev[k]]

\* a handler that cached the main text as soon as its translation arrived
SrMainRespondsCachingMain ==
    \E i \in 1..Len(srInFlight), t \in TranslationTexts :
        LET h == srInFlight[i]
            translatedMain == Translated(t, h.data.text)
        IN  /\ h.stage = "main"
            /\ IF Truthy(h.data.verification)
               THEN /\ srInFlight' = [srInFlight EXCEPT ![i].stage = "verify",
                                                        ![i].translatedMain = translatedMain]
                    /\ srTranslations' =
                          WithTranslations(srTranslations, h.lang, translatedMain, "")
                    /\ UNCHANGED srIsTranslating
               ELSE /\ srTranslations' =
                          WithTranslations(srTranslations, h.lang, translatedMain, "")
                    /\ srIsTranslating' = FALSE
                    /\ srInFlight' = RemoveAt(srInFlight, i)
            /\ lastTranslate' = "none"
            /\ UNCHANGED <<searchResult, srLanguage>>

\* The translation of the main text arrives: the verification is translated
\* next if there is one, else the cache is written.
SrMainResponds ==
    \E i \in 1..Len(srInFlight), t \in TranslationTexts :
        LET h == srInFlight[i]
            translatedMain == Translated(t, h.data.text)
        IN  /\ h.stage = "main"
            /\ IF Truthy(h.data.verification)
               THEN /\ srInFlight' = [srInFlight EXCEPT ![i].stage = "verify",
                                                        ![i].translatedMain = translatedMain]
                    /\ UNCHANGED <<srTranslations, srIsTranslating>>
               ELSE /\ srTranslations' =
                          WithTranslations(srTranslations, h.lang, translatedMain, "")
                    /\ srIsTranslating' = FALSE
                    /\ srInFlight' = RemoveAt(srInFlight, i)
            /\ lastTranslate' = "none"
            /\ UNCHANGED <<searchResult, srLanguage>>

\* The translation of the verification arrives: the cache is written.
SrVerifyResponds ==
    \E i \in 1..Len(srInFlight), t \in TranslationTexts :
        LET h == srInFlight[i]
        IN  /\ h.stage = "verify"
            /\ srTranslations' =
                  WithTranslations(srTranslations, h.lang, h.translatedMain,
                                   Translated(t, h.data.verification))
            /\ srIsTranslating' = FALSE
            /\ srInFlight' = RemoveAt(srInFlight, i)
            /\ lastTranslate' = "none"
            /\ UNCHANGED <<searchResult, srLanguage>>

\* Either translation fails: the view goes back to English, finally runs.
SrTranslateFails ==
    \E i \in 1..Len(srInFlight) :
        /\ srLanguage' = "English"
        /\ srIsTranslating' = FALSE
        /\ srInFlight' = RemoveAt(srInFlight, i)
        /\ lastTranslate' = IF srInFlight[i].stage = "main" THEN "searchMain"
                            ELSE "searchVerify"
        /\ UNCHANGED <<searchResult, srTranslations>>

(***************************************************************************)
(* The session: handleAnalyze with solveProblem, handleReset,              *)
(* handleSelectKey, and the handlers handleGenerateVideo and executeSearch *)
(* as the App component runs them, several at a time.                      *)
(*                                                                         *)
(* A handler that was started keeps running when the state it was started  *)
(* from is gone: nothing cancels it.  The calls generateExplanationVideo   *)
(* and performSearch are single awaits here (their steps are modelled      *)
(* above).  The credential dialog of the host is modal: while one is open  *)
(* the user clicks nothing on the page, and responses still arrive.        *)
(***************************************************************************)
VARIABLES
    file,              \* useState<File | null>
    isSearching,       \* useState<boolean>
    keyCheck,          \* the mount effect's hasSelectedApiKey(): "pending", "done"
    selectKey,         \* the header button's handleSelectKey while it awaits the
                       \* dialog: the errorMsg it captured
    anPc,              \* where the running handleAnalyze stands
    anCall,            \* the last analyze action: whether a file was selected,
                       \* and its credential steps up to the first request
    solveResult,       \* how the last call of solveProblem ended
    jobs,              \* the calls of handleGenerateVideo that have not ended,
                       \* a bag: nothing orders the handlers that run
    searches,          \* the calls of executeSearch that have not ended, a bag
    searchOutcome      \* how the last call of performSearch ended for its handler

seVars == <<file, isSearching, keyCheck, selectKey, anPc, anCall, solveResult,
            jobs, searches, searchOutcome>>

\* most calls of handleGenerateVideo and executeSearch suspended at a time
MaxHandlers == 2

\* response.text: empty or missing, text that is not JSON, or the JSON text
\* of an object with the three fields of the schema.  The schema and its
\* enum go out with the request; what comes back is text, and the
\* confidence in it is whatever the service wrote.
SolveBodies ==
    {[form |-> "empty", value |-> Nothing], [form |-> "malformed", value |-> Nothing]}
        \cup {[form |-> "object", value |-> Some(a)] :
                 a \in [solutionMarkdown : {"**Step 1: Given** $m = 10$"},
                        visualPrompt : {"a ball rolling down an incline"},
                        confidence : {"High", "Certain"}]}

\* const text = response.text; if (!text) throw ...; return JSON.parse(text)
SolveOutcome(body) ==
    IF body.form = "empty"
    THEN [kind |-> "thrown", artifact |-> Nothing, error |-> "No response from AI"]
    ELSE IF body.form = "malformed"
    THEN \* the SyntaxError of JSON.parse
         [kind |-> "thrown", artifact |-> Nothing,
          error |-> "Unexpected end of JSON input"]
    ELSE [kind |-> "returned", artifact |-> body.value, error |-> None]

\* the substrings the handlers look for, by the messages that contain them
Includes(m, part) ==
    CASE part = "403" -> m = "403 Forbidden"
      [] part = "API Key" -> m = ApiKeyNotFound
      [] part = "not found" -> m \in {ApiKeyNotFound, EntityNotFoundMessage}
      [] OTHER -> FALSE

\* a test that looked for "403" only
KeyRelated403Only(m) == Includes(m, "403")

\* e.message?.includes("403") || e.message?.includes("API Key") ||
\* e.message?.includes("not found")
KeyRelated(m) ==
    Includes(m, "403") \/ Includes(m, "API Key") \/ Includes(m, "not found")

\* a handler that never asked for the credential
NeedsKeyNever(flag) == FALSE

\* if (!apiKeySelected) await handleSelectKey(): the dialog is awaited when
\* the host offers it
NeedsKey(flag) == ~flag /\ hasAistudio

\* The credential steps of an action up to its first remote request.
NewCall(flag) ==
    [flagAtStart |-> flag, completed |-> 0, requested |-> FALSE, flagAtRequest |-> FALSE]
Requested(c, flag) == [c EXCEPT !.requested = TRUE, !.flagAtRequest = flag]

\* a handler starts, ends, or moves on
Put(bag, h) == bag (+) SetToBag({h})
Take(bag, h) == bag (-) SetToBag({h})
Move(bag, h, g) == Put(Take(bag, h), g)

NoSolve == [kind |-> "none", body |-> [form |-> "none", value |-> Nothing],
            artifact |-> Nothing, error |-> None]

seInit ==
    /\ file = Nothing
    /\ isSearching = FALSE
    /\ keyCheck = "pending"
    /\ selectKey = Nothing
    /\ anPc = "idle"
    /\ anCall = [hadFile |-> FALSE, call |-> NewCall(FALSE)]
    /\ solveResult = NoSolve
    /\ jobs = EmptyBag
    /\ searches = EmptyBag
    /\ searchOutcome = [kind |-> "none", error |-> None]

DialogOpen ==
    \/ selectKey # Nothing
    \/ anPc = "selectKey"
    \/ \E j \in BagToSet(jobs) : j.pc = "selectKey"
    \/ \E s \in BagToSet(searches) : s.pc = "selectKey"

\* The mount effect: hasSelectedApiKey() resolves, whenever it does.
KeyCheckResolves ==
    /\ keyCheck = "pending"
    /\ hasAistudio
    /\ keyCheck' = "done"
    /\ \E hasKey \in BOOLEAN : apiKeySelected' = hasKey
    /\ UNCHANGED <<hasAistudio, errorMsg, status, solution, videoStatus, videoUri>>
    /\ UNCHANGED <<file, isSearching, selectKey, anPc, anCall, solveResult, jobs, searches, searchOutcome>>

\* the rest of handleSelectKey once openSelectKey resolved; seen is what
\* errorMsg.includes("API Key") gives on the errorMsg the handler captured
KeySelected(seen) ==
    /\ apiKeySelected' = TRUE
    /\ errorMsg' = IF seen THEN "" ELSE errorMsg

\* The header button "Select key": handleSelectKey up to its await.
SelectKeyClick ==
    /\ ~apiKeySelected /\ hasAistudio
    /\ ~DialogOpen
    /\ selectKey' = Some(MentionsApiKey(errorMsg))
    /\ UNCHANGED appVars
    /\ UNCHANGED <<file, isSearching, keyCheck, anPc, anCall, solveResult, jobs, searches, searchOutcome>>

SelectKeyResolves ==
    /\ selectKey # Nothing
    /\ KeySelected(selectKey[1])
    /\ selectKey' = Nothing
    /\ UNCHANGED <<hasAistudio, status, solution, videoStatus, videoUri>>
    /\ UNCHANGED <<file, isSearching, keyCheck, anPc, anCall, solveResult, jobs, searches, searchOutcome>>

\* handleFileSelect / handleCropComplete: setFile
FileSelected ==
    /\ status = "IDLE"
    /\ ~DialogOpen
    /\ file = Nothing
    /\ file' = Some("problem.png")
    /\ UNCHANGED appVars
    /\ UNCHANGED <<isSearching, keyCheck, selectKey, anPc, anCall, solveResult, jobs, searches, searchOutcome>>

\* The setters of videoStatus and videoUri that a handler calls between two
\* awaits take effect one after the other, in the order of the statements.
\* An update names the field it sets; the other field of the record is idle.
SetVideoStatus(s) == [set |-> "videoStatus", status |-> s, uri |-> Nothing]
SetVideoUri(u) == [set |-> "videoUri", status |-> "", uri |-> u]

\* a clearing of the video that dropped the reference first
ClearVideoUriFirst == <<SetVideoUri(Nothing), SetVideoStatus("idle")>>

\* setVideoStatus('idle'); setVideoUri(undefined)
ClearVideo == <<SetVideoStatus("idle"), SetVideoUri(Nothing)>>

\* setVideoUri(uri); setVideoStatus('completed')
ShowVideo(ref) == <<SetVideoUri(Some(ref)), SetVideoStatus("completed")>>

\* what the two fields hold once the first k updates of a list are made
VideoView == [videoStatus |-> videoStatus, videoUri |-> videoUri]
RECURSIVE Updated(_, _, _)
Updated(view, updates, k) ==
    IF k = 0 THEN view
    ELSE LET prev == Updated(view, updates, k - 1)
             u == updates[k]
         IN  IF u.set = "videoStatus" THEN [prev EXCEPT !.videoStatus = u.status]
             ELSE [prev EXCEPT !.videoUri = u.uri]

\* the list of updates as one step
SetVideo(updates) ==
    LET view == Updated(VideoView, updates, Len(updates))
    IN  /\ videoStatus' = view.videoStatus
        /\ videoUri' = view.videoUri

\* handleAnalyze from the five setters to the call of solveProblem, which
\* sends its request unless the key is missing.
BeginAnalyze(call, flag) ==
    /\ status' = "ANALYZING"
    /\ solution' = Nothing
    /\ SetVideo(ClearVideo)
    /\ anPc' = "awaitSolve"
    /\ anCall' = [hadFile |-> TRUE,
                  call |-> IF Truthy(apiKey) THEN Requested(call, flag) ELSE call]

\* A click on "Solve Problem": handleAnalyze up to its first await.
HandleAnalyze ==
    /\ status = "IDLE"
    /\ anPc = "idle"
    /\ ~DialogOpen
    /\ IF file = Nothing
       THEN /\ anCall' = [hadFile |-> FALSE, call |-> NewCall(apiKeySelected)]
            /\ UNCHANGED <<appVars, anPc>>
       ELSE IF NeedsKey(apiKeySelected)
       THEN /\ anPc' = "selectKey"
            /\ anCall' = [hadFile |-> TRUE, call |-> NewCall(apiKeySelected)]
            /\ UNCHANGED appVars
       ELSE /\ BeginAnalyze(NewCall(apiKeySelected), apiKeySelected)
            /\ errorMsg' = ""
            /\ UNCHANGED <<hasAistudio, apiKeySelected>>
    /\ UNCHANGED <<file, isSearching, keyCheck, selectKey, solveResult, jobs, searches, searchOutcome>>

\* The dialog of handleAnalyze resolves.
AnalyzeKeySelected ==
    /\ anPc = "selectKey"
    /\ apiKeySelected' = TRUE
    /\ errorMsg' = ""
    /\ BeginAnalyze([anCall.call EXCEPT !.completed = 1], TRUE)
    /\ UNCHANGED hasAistudio
    /\ UNCHANGED <<file, isSearching, keyCheck, selectKey, solveResult, jobs, searches, searchOutcome>>

\* a catch that cleared the solution and forgot the status
AnalyzeCatchNoStatus(e) ==
    /\ errorMsg' = OrElse(e, "Failed to analyze image. Please try again.")
    /\ apiKeySelected' = IF KeyRelated(e) THEN FALSE ELSE apiKeySelected
    /\ UNCHANGED <<hasAistudio, status, solution, videoStatus, videoUri>>

\* The catch of handleAnalyze.
AnalyzeCatch(e) ==
    /\ errorMsg' = OrElse(e, "Failed to analyze image. Please try again.")
    /\ status' = "ERROR"
    /\ apiKeySelected' = IF KeyRelated(e) THEN FALSE ELSE apiKeySelected
    /\ UNCHANGED <<hasAistudio, solution, videoStatus, videoUri>>

\* generateContent resolves: the rest of solveProblem and of handleAnalyze.
SolveResponds ==
    /\ anPc = "awaitSolve"
    /\ Truthy(apiKey)
    /\ \E body \in SolveBodies :
        LET out == SolveOutcome(body)
        IN  /\ solveResult' = [kind |-> out.kind, body |-> body,
                               artifact |-> out.artifact, error |-> out.error]
            /\ IF out.kind = "returned"
               THEN /\ solution' = out.artifact
                    /\ status' = "SOLVED"
                    /\ UNCHANGED <<hasAistudio, apiKeySelected, errorMsg, videoStatus, videoUri>>
               ELSE AnalyzeCatch(out.error)
    /\ anPc' = "idle"
    /\ UNCHANGED <<file, isSearching, keyCheck, selectKey, anCall, jobs, searches, searchOutcome>>

\* solveProblem throws before it got a body: the key is missing, or
\* generateContent rejects ("" is an error without a message).
SolveFails ==
    /\ anPc = "awaitSolve"
    /\ \E e \in IF Truthy(apiKey) THEN SearchErrors \cup {""} ELSE {ApiKeyNotFound} :
        /\ solveResult' = [NoSolve EXCEPT !.kind = "thrown", !.error = e]
        /\ AnalyzeCatch(e)
    /\ anPc' = "idle"
    /\ UNCHANGED <<file, isSearching, keyCheck, selectKey, anCall, jobs, searches, searchOutcome>>

\* every handler of the bag marked as discarded
Discarded(bag) ==
    LET Count(h) == IF h \in DOMAIN bag THEN bag[h] ELSE 0
    IN  [h \in {[g EXCEPT !.discarded = TRUE] : g \in DOMAIN bag} |->
            Count(h) + Count([h EXCEPT !.discarded = FALSE])]

\* a reset that also dropped the credential flag
HandleResetClearingFlag ==
    /\ (status = "SOLVED" /\ solution # Nothing) \/ status = "ERROR"
    /\ ~DialogOpen
    /\ status' = "IDLE"
    /\ file' = Nothing
    /\ solution' = Nothing
    /\ SetVideo(ClearVideo)
    /\ errorMsg' = ""
    /\ jobs' = Discarded(jobs)
    /\ anCall' = [hadFile |-> FALSE, call |-> NewCall(FALSE)]
    /\ solveResult' = NoSolve
    /\ apiKeySelected' = FALSE
    /\ UNCHANGED hasAistudio
    /\ UNCHANGED <<isSearching, keyCheck, selectKey, anPc, searches, searchOutcome>>

\* handleReset.  The handlers that run are not told; they are marked here,
\* and the record of the last analyze action is dropped.
HandleReset ==
    /\ (status = "SOLVED" /\ solution # Nothing) \/ status = "ERROR"
    /\ ~DialogOpen
    /\ status' = "IDLE"
    /\ file' = Nothing
    /\ solution' = Nothing
    /\ SetVideo(ClearVideo)
    /\ errorMsg' = ""
    /\ jobs' = Discarded(jobs)
    /\ anCall' = [hadFile |-> FALSE, call |-> NewCall(FALSE)]
    /\ solveResult' = NoSolve
    /\ UNCHANGED <<hasAistudio, apiKeySelected>>
    /\ UNCHANGED <<isSearching, keyCheck, selectKey, anPc, searches, searchOutcome>>

\* A click on the generate (or retry) button: handleGenerateVideo up to its
\* first await.
HandleGenerateVideo ==
    /\ status = "SOLVED" /\ solution # Nothing
    /\ videoStatus \in {"idle", "error"}
    /\ Truthy(solution[1].visualPrompt)
    /\ ~DialogOpen
    /\ BagCardinality(jobs) + BagCardinality(searches) < MaxHandlers
    /\ LET job == [pc |-> "awaitVideo", attempt |-> 1, seen |-> MentionsApiKey(errorMsg),
                   call |-> NewCall(apiKeySelected), discarded |-> FALSE]
       IN  IF NeedsKey(apiKeySelected)
           THEN /\ jobs' = Put(jobs, [job EXCEPT !.pc = "selectKey"])
                /\ UNCHANGED videoStatus
           ELSE /\ jobs' = Put(jobs, [job EXCEPT !.call = Requested(@, apiKeySelected)])
                /\ videoStatus' = "generating"
    /\ UNCHANGED <<hasAistudio, apiKeySelected, errorMsg, status, solution, videoUri>>
    /\ UNCHANGED <<file, isSearching, keyCheck, selectKey, anPc, anCall, solveResult, searches, searchOutcome>>

\* The dialog of a handleGenerateVideo resolves: the attempt it was about to
\* make begins.
JobKeySelected ==
    \E j \in BagToSet(jobs) :
        /\ j.pc = "selectKey"
        /\ KeySelected(j.seen)
        /\ videoStatus' = "generating"
        /\ jobs' = Move(jobs, j, [j EXCEPT !.pc = "awaitVideo",
                                           !.call = IF @.requested THEN @
                                                    ELSE Requested([@ EXCEPT !.completed = 1], TRUE)])
        /\ UNCHANGED <<hasAistudio, status, solution, videoUri>>
        /\ UNCHANGED <<file, isSearching, keyCheck, selectKey, anPc, anCall, solveResult, searches, searchOutcome>>

\* generateExplanationVideo returns: setVideoUri(uri); setVideoStatus('completed')
JobReturns ==
    \E j \in BagToSet(jobs), uri \in {"https://video/1?alt=media"} :
        /\ j.pc = "awaitVideo"
        /\ SetVideo(ShowVideo(VideoReference(uri, apiKey)))
        /\ jobs' = Take(jobs, j)
        /\ UNCHANGED <<hasAistudio, apiKeySelected, errorMsg, status, solution>>
        /\ UNCHANGED <<file, isSearching, keyCheck, selectKey, anPc, anCall, solveResult, searches, searchOutcome>>

\* generateExplanationVideo throws: the catch of handleGenerateVideo.
JobThrows ==
    \E j \in BagToSet(jobs), e \in VideoErrors \cup {NoVideoMessage} :
        /\ j.pc = "awaitVideo"
        /\ IF RetryBranch(j.attempt, e)
           THEN /\ apiKeySelected' = FALSE
                /\ jobs' = Move(jobs, j, [j EXCEPT !.attempt = 2,
                                                   !.pc = IF hasAistudio THEN "selectKey"
                                                          ELSE "retryNow"])
                /\ UNCHANGED videoStatus
           ELSE /\ videoStatus' = "error"
                /\ jobs' = Take(jobs, j)
                /\ UNCHANGED apiKeySelected
        /\ UNCHANGED <<hasAistudio, errorMsg, status, solution, videoUri>>
        /\ UNCHANGED <<file, isSearching, keyCheck, selectKey, anPc, anCall, solveResult, searches, searchOutcome>>

\* The retry of the catch block when no dialog was awaited.
JobRetryNow ==
    \E j \in BagToSet(jobs) :
        /\ j.pc = "retryNow"
        /\ videoStatus' = "generating"
        /\ jobs' = Move(jobs, j, [j EXCEPT !.pc = "awaitVideo"])
        /\ UNCHANGED <<hasAistudio, apiKeySelected, errorMsg, status, solution, videoUri>>
        /\ UNCHANGED <<file, isSearching, keyCheck, selectKey, anPc, anCall, solveResult, searches, searchOutcome>>

\* a beginning of the search that left the history for the response
BeginSearchNotRecorded(q) ==
    /\ isSearching' = TRUE
    /\ searchResult' = Nothing
    /\ searchOutcome' = [kind |-> "none", error |-> None]
    /\ UNCHANGED hsVars

\* executeSearch from addToHistory to the call of performSearch.
BeginSearch(q) ==
    /\ searchHistory' = NewHistory(searchHistory, Trim(q))
    /\ storedHistory' = Some(Stringify(NewHistory(searchHistory, Trim(q))))
    /\ lastCall' = [op |-> "addToHistory", arg |-> q,
                    lenBefore |-> Len(searchHistory),
                    held |-> \E i \in 1..Len(searchHistory) : searchHistory[i] = Trim(q)]
    /\ isSearching' = TRUE
    /\ searchResult' = Nothing
    /\ searchOutcome' = [kind |-> "none", error |-> None]

\* the handlers of the bag once a newer search was issued
Superseded(bag) ==
    LET Count(h) == IF h \in DOMAIN bag THEN bag[h] ELSE 0
    IN  [h \in {[g EXCEPT !.latest = FALSE] : g \in DOMAIN bag} |->
            Count(h) + Count([h EXCEPT !.latest = TRUE])]

\* The queries the overlay lets the user submit: the text of the box while
\* its button is enabled (disabled={isSearching || !searchQuery.trim()}), and
\* an item of the history while no result takes the place of the list.  A
\* trending topic is submitted as a history item is.
Submittable(typed) ==
    (IF isSearching THEN {} ELSE typed)
    \cup (IF searchResult = Nothing
          THEN {searchHistory[i] : i \in 1..Len(searchHistory)} ELSE {})

\* A search is submitted from the box (which holds one of the texts typed),
\* a history item or a suggestion: executeSearch up to its first await.
ExecuteSearch(typed) ==
    \E q \in Submittable(typed) :
        /\ Trim(q) # <<>>
        /\ ~DialogOpen
        /\ BagCardinality(jobs) + BagCardinality(searches) < MaxHandlers
        /\ IF NeedsKey(apiKeySelected)
           THEN /\ searches' = Put(Superseded(searches),
                      [pc |-> "selectKey", query |-> q, seen |-> MentionsApiKey(errorMsg),
                       call |-> NewCall(apiKeySelected), latest |-> TRUE])
                /\ UNCHANGED <<hsVars, isSearching, searchResult, searchOutcome>>
           ELSE /\ searches' = Put(Superseded(searches),
                      [pc |-> "awaitSearch", query |-> q, seen |-> MentionsApiKey(errorMsg),
                       call |-> IF Truthy(apiKey)
                                THEN Requested(NewCall(apiKeySelected), apiKeySelected)
                                ELSE NewCall(apiKeySelected),
                       latest |-> TRUE])
                /\ BeginSearch(q)
        /\ UNCHANGED appVars
        /\ UNCHANGED <<file, keyCheck, selectKey, anPc, anCall, solveResult, jobs>>

\* The dialog of an executeSearch resolves.
SearchKeySelected ==
    \E s \in BagToSet(searches) :
        /\ s.pc = "selectKey"
        /\ KeySelected(s.seen)
        /\ searches' = Move(searches, s,
                            [s EXCEPT !.pc = "awaitSearch",
                                      !.call = IF Truthy(apiKey)
                                               THEN Requested([@ EXCEPT !.completed = 1], TRUE)
                                               ELSE [@ EXCEPT !.completed = 1]])
        /\ BeginSearch(s.query)
        /\ UNCHANGED <<hasAistudio, status, solution, videoStatus, videoUri>>
        /\ UNCHANGED <<file, keyCheck, selectKey, anPc, anCall, solveResult, jobs>>

\* performSearch returns a result whose text is one of texts:
\* setSearchResult(result), then finally.
SearchReturns(texts) ==
    \E s \in BagToSet(searches),
       r \in [text : texts, webSources : {<<>>}, verification : {"verified"}] :
        /\ s.pc = "awaitSearch"
        /\ Truthy(apiKey)
        /\ searchResult' = Some(r)
        /\ searchOutcome' = [kind |-> "returned", error |-> None]
        /\ isSearching' = FALSE
        /\ searches' = Take(searches, s)
        /\ UNCHANGED <<appVars, hsVars>>
        /\ UNCHANGED <<file, keyCheck, selectKey, anPc, anCall, solveResult, jobs>>

\* performSearch throws (the key is missing, or Stage 1 failed): the catch
\* of executeSearch sets its message and nothing else, then finally.
SearchThrows ==
    \E s \in BagToSet(searches) :
        /\ s.pc = "awaitSearch"
        /\ \E e \in IF Truthy(apiKey) THEN SearchErrors ELSE {ApiKeyNotFound} :
            searchOutcome' = [kind |-> "thrown", error |-> e]
        /\ errorMsg' = "Search failed. Please try again."
        /\ isSearching' = FALSE
        /\ searches' = Take(searches, s)
        /\ UNCHANGED <<hasAistudio, apiKeySelected, status, solution, videoStatus, videoUri>>
        /\ UNCHANGED <<hsVars, searchResult>>
        /\ UNCHANGED <<file, keyCheck, selectKey, anPc, anCall, solveResult, jobs>>

vars == <<psVars, hsVars, appVars, hvVars, svVars, srVars, seVars>>

srQuiet == srInit /\ searchResult[1].text = NoResultsFound
                  /\ searchResult[1].verification = ""


\* the parts of the state a specification leaves at rest
psQuiet == psInit /\ apiKey = "KEY"
appQuiet == appInit /\ hasAistudio /\ apiKeySelected /\ errorMsg = ""
                    /\ Truthy(solution[1].visualPrompt)
                    /\ Truthy(solution[1].solutionMarkdown)

InitSearch == psInit /\ hsInit /\ appQuiet /\ hvInit /\ svInit /\ srQuiet /\ seInit
searchRest == <<hsVars, appVars, hvVars, svVars, srVars, seVars>>
NextSearch ==
    \/ PerformSearchCall /\ UNCHANGED searchRest
    \/ SearchFails /\ UNCHANGED searchRest
    \/ SearchResponds /\ UNCHANGED searchRest
    \/ VerifyResponds /\ UNCHANGED searchRest
    \/ VerifyFails /\ UNCHANGED searchRest
SpecSearch == InitSearch /\ [][NextSearch]_vars

InitHistory == psQuiet /\ hsInit /\ appQuiet /\ hvInit /\ svInit /\ srQuiet /\ seInit
historyRest == <<psVars, appVars, hvVars, svVars, srVars, seVars>>
NextHistory ==
    \/ AddToHistory /\ UNCHANGED historyRest
    \/ ClearHistory /\ UNCHANGED historyRest
SpecHistory == InitHistory /\ [][NextHistory]_vars

InitVideo == psInit /\ hsInit /\ appInit /\ hvInit /\ svInit /\ srQuiet /\ seInit
videoRest == <<psVars, hsVars, svVars, srVars, seVars>>
NextVideo ==
    \/ GenerateVideoClick /\ UNCHANGED videoRest
    \/ SelectKeyDone /\ UNCHANGED videoRest
    \/ SubmitResponds /\ UNCHANGED videoRest
    \/ SubmitFails /\ UNCHANGED videoRest
    \/ WaitElapsed /\ UNCHANGED videoRest
    \/ StatusResponds /\ UNCHANGED videoRest
    \/ StatusFails /\ UNCHANGED videoRest
    \/ RetryNow /\ UNCHANGED videoRest
SpecVideo == InitVideo /\ [][NextVideo]_vars

\* The same with what the event loop and the services guarantee: a timer
\* that was set fires, a request that was issued is answered or rejected
\* (with done=true after MaxPolls reports of done=false at the latest), the
\* retry that follows a skipped dialog runs, and a dialog that was opened is
\* closed.  The clicks of the user are under no obligation.
SpecVideoFair ==
    /\ SpecVideo
    /\ WF_vars(WaitElapsed /\ UNCHANGED videoRest)
    /\ WF_vars((SubmitResponds \/ SubmitFails) /\ UNCHANGED videoRest)
    /\ WF_vars((StatusResponds \/ StatusFails) /\ UNCHANGED videoRest)
    /\ WF_vars(RetryNow /\ UNCHANGED videoRest)
    /\ WF_vars(SelectKeyDone /\ UNCHANGED videoRest)

appSolved == appInit /\ hasAistudio /\ apiKeySelected /\ errorMsg = ""
                     /\ Truthy(solution[1].visualPrompt)

InitTranslate == psInit /\ hsInit /\ appSolved /\ hvInit /\ svInit /\ srInit /\ seInit
translateRest == <<psVars, hsVars, appVars, hvVars, seVars>>
svView == <<svLanguage, svTranslations, svIsTranslating, svInFlight>>
NextTranslate ==
    \/ SvLanguageClick /\ UNCHANGED <<translateRest, srVars>>
    \/ SvTranslateResponds /\ UNCHANGED <<translateRest, srVars>>
    \/ SvTranslateFails /\ UNCHANGED <<translateRest, srVars>>
    \/ SrLanguageClick /\ UNCHANGED <<translateRest, svView>>
    \/ SrMainResponds /\ UNCHANGED <<translateRest, svView>>
    \/ SrVerifyResponds /\ UNCHANGED <<translateRest, svView>>
    \/ SrTranslateFails /\ UNCHANGED <<translateRest, svView>>
SpecTranslate == InitTranslate /\ [][NextTranslate]_vars

\* The App component as it is mounted: the initial values of useState, no
\* result in the search view.
InitSession ==
    /\ psInit /\ hsInit /\ hvInit /\ svInit /\ seInit
    /\ hasAistudio \in BOOLEAN
    /\ apiKeySelected = FALSE
    /\ errorMsg = ""
    /\ status = "IDLE"
    /\ solution = Nothing
    /\ videoStatus = "idle"
    /\ videoUri = Nothing
    /\ searchResult = Nothing
    /\ srLanguage = "English"
    /\ srTranslations = [k \in CacheKeys |-> None]
    /\ srIsTranslating = FALSE
    /\ srInFlight = <<>>
sessionRest == <<psVars, hvVars, svVars, srLanguage, srTranslations, srIsTranslating,
                 srInFlight>>
NextSession ==
    \/ KeyCheckResolves /\ UNCHANGED <<sessionRest, hsVars, searchResult>>
    \/ SelectKeyClick /\ UNCHANGED <<sessionRest, hsVars, searchResult>>
    \/ SelectKeyResolves /\ UNCHANGED <<sessionRest, hsVars, searchResult>>
    \/ FileSelected /\ UNCHANGED <<sessionRest, hsVars, searchResult>>
    \/ HandleAnalyze /\ UNCHANGED <<sessionRest, hsVars, searchResult>>
    \/ AnalyzeKeySelected /\ UNCHANGED <<sessionRest, hsVars, searchResult>>
    \/ SolveResponds /\ UNCHANGED <<sessionRest, hsVars, searchResult>>
    \/ SolveFails /\ UNCHANGED <<sessionRest, hsVars, searchResult>>
    \/ HandleReset /\ UNCHANGED <<sessionRest, hsVars, searchResult>>
    \/ HandleGenerateVideo /\ UNCHANGED <<sessionRest, hsVars, searchResult>>
    \/ JobKeySelected /\ UNCHANGED <<sessionRest, hsVars, searchResult>>
    \/ JobReturns /\ UNCHANGED <<sessionRest, hsVars, searchResult>>
    \/ JobThrows /\ UNCHANGED <<sessionRest, hsVars, searchResult>>
    \/ JobRetryNow /\ UNCHANGED <<sessionRest, hsVars, searchResult>>
    \/ ExecuteSearch({<<"w1">>}) /\ UNCHANGED sessionRest
    \/ SearchKeySelected /\ UNCHANGED sessionRest
    \/ SearchReturns({"answer"}) /\ UNCHANGED sessionRest
    \/ SearchThrows /\ UNCHANGED sessionRest
SpecSession == InitSession /\ [][NextSession]_vars

\* The search overlay alone: the searches of the session together with the
\* SearchResults view that App renders while a result is set.  Every search
\* may come back with any text performSearch can return.
\*
\* {searchResult ? <SearchResults data={searchResult} .../> : (history, trending)}:
\* the view is unmounted, its state and its suspended handlers lost, when the
\* result is set to null; setting another result re-renders the mounted view
\* with new data and leaves its state alone.
SearchResultsRendered ==
    IF searchResult' = Nothing
    THEN /\ srLanguage' = "English"
         /\ srTranslations' = [k \in CacheKeys |-> None]
         /\ srIsTranslating' = FALSE
         /\ srInFlight' = <<>>
    ELSE UNCHANGED <<srLanguage, srTranslations, srIsTranslating, srInFlight>>
NextOverlay ==
    \/ ExecuteSearch({<<"w1">>}) /\ SearchResultsRendered
           /\ UNCHANGED <<psVars, hvVars, svVars>>
    \/ SearchKeySelected /\ SearchResultsRendered /\ UNCHANGED <<psVars, hvVars, svVars>>
    \/ SearchReturns(ResultTexts) /\ SearchResultsRendered /\ UNCHANGED <<psVars, hvVars, svVars>>
    \/ SearchThrows /\ SearchResultsRendered /\ UNCHANGED <<psVars, hvVars, svVars>>
    \/ SrLanguageClick /\ UNCHANGED <<translateRest, svView>>
    \/ SrMainResponds /\ UNCHANGED <<translateRest, svView>>
    \/ SrVerifyResponds /\ UNCHANGED <<translateRest, svView>>
    \/ SrTranslateFails /\ UNCHANGED <<translateRest, svView>>
SpecOverlay == InitSession /\ [][NextOverlay]_vars

\* The searches alone, submitted with whatever the box may hold (blank texts,
\* and texts with blanks around a word), and the Clear button of the history
\* list, which is on display while no result is.
SubmitQueries == {<<>>, <<Space>>, <<"w1">>, <<Space, "w2", Space>>}
NextSubmit ==
    \/ ExecuteSearch(SubmitQueries) /\ UNCHANGED sessionRest
    \/ SearchKeySelected /\ UNCHANGED sessionRest
    \/ SearchReturns({"answer"}) /\ UNCHANGED sessionRest
    \/ SearchThrows /\ UNCHANGED sessionRest
    \/ /\ searchResult = Nothing /\ searchHistory # <<>>
       /\ ClearHistory /\ UNCHANGED historyRest
SpecSubmit == InitSession /\ [][NextSubmit]_vars

(***************************************************************************)
(* Claims about performSearch (checked under SpecSearch)                   *)
(***************************************************************************)
\* the citations the filter accepted, in the order the service listed them
Accepted == WebSources(chunks)

\* position of the first citation of uri u in ws
FirstIndex(ws, u) ==
    CHOOSE i \in 1..Len(ws) : ws[i].uri = u /\ \A j \in 1..(i - 1) : ws[j].uri # u

\* C1: for every list of accepted citations, the entry performSearch keeps
\* for a URI is the first citation of that URI, with the first citation's
\* title.
C1_FirstOccurrenceKept ==
    psPc = "returned" =>
        \A i \in 1..Len(psResult.webSources) :
            psResult.webSources[i] =
                Accepted[FirstIndex(Accepted, psResult.webSources[i].uri)]

\* C2: in every SearchResult returned, webSources holds each accepted
\* citation URI exactly once, and the URIs stand in the order of their first
\* appearance in the service's citation list.
C2_UniqueUrisFirstSeenOrder ==
    psPc = "returned" =>
        LET ws == psResult.webSources
        IN  /\ \A i, j \in 1..Len(ws) : i # j => ws[i].uri # ws[j].uri
            /\ {ws[i].uri : i \in 1..Len(ws)} = {Accepted[i].uri : i \in 1..Len(Accepted)}
            /\ \A i, j \in 1..Len(ws) :
                   i < j => FirstIndex(Accepted, ws[i].uri) < FirstIndex(Accepted, ws[j].uri)

\* a search returned whose citations were (A, B, A): a repeated URI with
\* another URI in between
C2_Witness ==
    /\ psPc = "returned"
    /\ Len(Accepted) = 3
    /\ Accepted[1].uri = Accepted[3].uri
    /\ Accepted[1].uri # Accepted[2].uri
    /\ Len(psResult.webSources) = 2

VerificationFailed == Len(psRequests) = 2 /\ psRequests[2].outcome = "failed"

\* C3: when Stage 1 succeeded and the verification request fails,
\* performSearch returns: text and webSources are the Stage-1 values,
\* verification is the fallback literal, and nothing is thrown.
C3_VerificationFailureAbsorbed ==
    VerificationFailed =>
        /\ psPc = "returned"
        /\ psError = None
        /\ psResult = [text |-> searchText, webSources |-> uniqueSources,
                       verification |-> CouldNotVerify]
        /\ psResult.text = OrElse(searchResponseText, NoResultsFound)

\* the verification of a search with an answer and a source failed
C3_Witness ==
    /\ VerificationFailed
    /\ searchResponseText = "answer"
    /\ uniqueSources # <<>>

SearchFailed == Len(psRequests) >= 1 /\ psRequests[1].outcome = "failed"

\* C4: when the Stage-1 request fails the call throws that error, returns
\* no SearchResult and issues no verification request; a verification
\* request is only ever issued after the Stage-1 request has succeeded.
C4_Stage1FailureFatal ==
    /\ SearchFailed =>
          /\ psPc = "thrown"
          /\ psError \in SearchErrors
          /\ psResult = None
          /\ Len(psRequests) = 1
    /\ \A i \in 1..Len(psRequests) :
          psRequests[i].kind = "verify" =>
              i = 2 /\ psRequests[1] = [kind |-> "search", outcome |-> "ok"]

\* the Stage-1 request of a call has failed
C4_Witness == SearchFailed /\ psPc = "thrown"

\* the Stage-1 response of the call carried no text
EmptyAnswer == psPc \in {"awaitVerify", "returned", "thrown"} /\ searchResponseText = ""

\* C24: when the Stage-1 response carries no text the call does not throw;
\* the answer quoted in the verification request is the literal
\* "No results found.", and so is the text of the SearchResult returned.
C24_EmptyAnswerPlaceholder ==
    EmptyAnswer =>
        /\ psPc # "thrown" /\ psError = None
        /\ Len(psRequests) = 2
        /\ psRequests[2].kind = "verify"
        /\ psRequests[2].answer = "No results found."
        /\ psPc = "returned" => psResult.text = "No results found."

\* a search without text was verified and returned
C24_Witness ==
    /\ EmptyAnswer
    /\ psPc = "returned"
    /\ psRequests[2].outcome = "ok"
    /\ psResult.verification = "verified"

\* the chunks of the response that have a uri and a title, in their order
Complete == SelectSeq(chunks, LAMBDA c : c.uri # "" /\ c.title # "")

NoDuplicates(h) == \A i, j \in 1..Len(h) : i # j => h[i] # h[j]

\* C9: after any sequence of addToHistory and clearHistory calls the
\* history has at most 5 entries and no two equal entries.
C9_HistoryBoundedAndDistinct ==
    /\ Len(searchHistory) <= HistoryMax
    /\ NoDuplicates(searchHistory)

\* a query the full history already held has been added again
C9_Witness ==
    /\ lastCall.op = "addToHistory"
    /\ lastCall.lenBefore = HistoryMax
    /\ lastCall.held
    /\ Len(searchHistory) = HistoryMax

\* the entries of h other than q, in their order
Others(h, q) == SelectSeq(h, LAMBDA x : x # q)

Contains(h, q) == \E i \in 1..Len(h) : h[i] = q

Blanks(n) == [i \in 1..n |-> Space]

\* q is raw without the blanks at its two ends
IsTrimmed(q, raw) ==
    /\ q = <<>> \/ (q[1] # Space /\ q[Len(q)] # Space)
    /\ \E a, b \in 0..Len(raw) : raw = Blanks(a) \o q \o Blanks(b)

IsBlank(raw) == \A i \in 1..Len(raw) : raw[i] = Space

\* C10: a call of addToHistory with a query that is not blank puts the
\* trimmed query first; if the history held it, it is moved to the front,
\* the other entries keep their order and the length is unchanged; if it is
\* new, the former entries follow in their order, and on a history of 5
\* exactly the last one is dropped.
C10_MostRecentFirst ==
    [][ (lastCall'.op = "addToHistory" /\ ~IsBlank(lastCall'.arg)) =>
          LET h == searchHistory
              h2 == searchHistory'
          IN  /\ h2 # <<>>
              /\ IsTrimmed(h2[1], lastCall'.arg)
              /\ Contains(h, h2[1]) =>
                    /\ Len(h2) = Len(h)
                    /\ Tail(h2) = Others(h, h2[1])
              /\ ~Contains(h, h2[1]) =>
                    /\ Len(h) < HistoryMax => Tail(h2) = h
                    /\ Len(h) = HistoryMax =>
                          Tail(h2) = SubSeq(h, 1, HistoryMax - 1)
      ]_vars

\* a sixth distinct query, typed with blanks around it, has been added to a
\* history of five
C10_Witness ==
    /\ lastCall.op = "addToHistory"
    /\ ~IsBlank(lastCall.arg)
    /\ lastCall.arg[1] = Space
    /\ lastCall.lenBefore = HistoryMax
    /\ ~lastCall.held
    /\ IsTrimmed(searchHistory[1], lastCall.arg)

\* C29: after a call of addToHistory that changed the history the store
\* holds an array that parses to exactly the in-memory list; after
\* clearHistory the list is empty and the key is removed; and in every
\* state reached by these calls a store without the key goes with an empty
\* list and a stored array with the list it parses to.
C29_StoreAgreesWithHistory ==
    /\ (lastCall.op = "addToHistory" /\ ~IsBlank(lastCall.arg)) =>
          /\ storedHistory # Nothing
          /\ storedHistory[1].json = "array"
          /\ Parse(storedHistory[1]) = searchHistory
          /\ searchHistory # <<>>
    /\ lastCall.op = "clearHistory" =>
          /\ searchHistory = <<>>
          /\ storedHistory = Nothing
    /\ IF storedHistory = Nothing THEN searchHistory = <<>>
       ELSE Parse(storedHistory[1]) = searchHistory

\* a new query was added to a full history: the stored list was cut to
\* five like the list in memory
C29_Witness ==
    /\ lastCall.op = "addToHistory"
    /\ lastCall.lenBefore = HistoryMax /\ ~lastCall.held
    /\ storedHistory # Nothing
    /\ Len(storedHistory[1].items) = HistoryMax
    /\ storedHistory[1].items[1] = searchHistory[1]

(***************************************************************************)
(* Claims about video generation (checked under SpecVideo)                 *)
(***************************************************************************)
\* the latest handle of the running call reports done with a video uri
JobDoneWithVideo ==
    operation # Nothing /\ operation[1].done /\ Truthy(operation[1].uri)

\* C5: when the handles of a call reported done=false k times and then
\* done=true with a video, generateExplanationVideo has made exactly one
\* submission and exactly k wait-and-recheck cycles (a wait, then a status
\* request), and returns the video's uri followed by "&key=" and the
\* credential; while it polls, each done=false report is followed by one
\* wait and one status request.
C5_PollsUntilDone ==
    /\ JobDoneWithVideo =>
          /\ gvResult.kind = "returned"
          /\ gvResult.uri = <<(<<operation[1].uri, "&key=", apiKey>>)>>
          /\ gvCount.submits = 1
          /\ gvCount.waits = gvCount.notDone
          /\ gvCount.statusRequests = gvCount.notDone
    /\ hvPc = "waiting" =>
          /\ ~operation[1].done
          /\ gvCount.waits = gvCount.notDone - 1
          /\ gvCount.statusRequests = gvCount.waits
    /\ hvPc = "awaitStatus" =>
          /\ gvCount.waits = gvCount.notDone
          /\ gvCount.statusRequests = gvCount.waits

\* the job reported done=false twice, then done=true with a video
C5_Witness ==
    /\ JobDoneWithVideo
    /\ gvCount.notDone = 2
    /\ gvCount.waits = 2
    /\ gvResult.kind = "returned"

\* the action began with the flag set and the capability present, its first
\* attempt failed with the "entity not found" signal and its retry returned
RetrySucceeded ==
    /\ hasAistudio
    /\ closure.apiKeySelected
    /\ firstError = EntityNotFoundMessage
    /\ attempt = 2
    /\ gvResult.kind = "returned"

\* C6: in that case videoStatus ends 'completed' with the retry's uri, the
\* credential dialog was opened exactly once, exactly two submissions were
\* made, and the action never set videoStatus to 'error'.
C6_AuthRetryCompletes ==
    RetrySucceeded =>
        /\ videoStatus = "completed"
        /\ videoUri = gvResult.uri
        /\ videoUri # Nothing
        /\ hvCount = [submissions |-> 2, selections |-> 1]
        /\ statusTrace = <<"generating", "generating", "completed">>

\* the retry succeeded after polling
C6_Witness ==
    /\ RetrySucceeded
    /\ gvCount.notDone > 0
    /\ videoStatus = "completed"

RetryFailed == attempt = 2 /\ gvResult.kind = "thrown"

\* C7: one generate-video action makes at most two submissions; when its
\* retry has failed, whatever the error, videoStatus is 'error', the handler
\* has ended, and submissions and credential dialogs only happen again with
\* the next click.
C7_AtMostOneRetry ==
    /\ [](/\ hvCount.submissions <= 2
          /\ RetryFailed =>
                /\ videoStatus = "error"
                /\ hvPc = "idle"
                /\ hvCount.submissions = 2)
    /\ [][(RetryFailed /\ hvCount' # hvCount) =>
              (attempt' = 1 /\ firstError' = None /\ closure'.visualPrompt # ""
               /\ hvCount'.submissions + hvCount'.selections = 1)]_vars

\* the retry failed with the "entity not found" signal again
C7_Witness ==
    /\ RetryFailed
    /\ firstError = EntityNotFoundMessage
    /\ gvResult.error = EntityNotFoundMessage
    /\ videoStatus = "error"

(***************************************************************************)
(* Claims about the translation caches (checked under SpecTranslate)       *)
(***************************************************************************)
\* the solution view holds a completed translation into l and the step
\* keeps to the claim: a switch to l issues no request, the cached text
\* stays what it was, and it is the text shown for l
SvReusesCache(l) ==
    svTranslations[l] # None =>
        /\ (svLanguage # l /\ svLanguage' = l) => svInFlight' = svInFlight
        /\ svTranslations'[l] = svTranslations[l]
        /\ svLanguage' = l => ContentToDisplay' = svTranslations[l]

\* the same for the main text of the search view
SrReusesCache(l) ==
    srTranslations[TextKey(l)] # None =>
        /\ (srLanguage # l /\ srLanguage' = l) => srInFlight' = srInFlight
        /\ srTranslations'[TextKey(l)] = srTranslations[TextKey(l)]
        /\ srLanguage' = l => CurrentText' = srTranslations[TextKey(l)]

\* C8: once a translation of the shown text into a language has completed
\* (its cache entry is written), requesting that language again for the
\* same text issues no translation request and shows exactly the text that
\* was cached.
C8_CachedTranslationReused ==
    [][\A l \in TargetLanguages : SvReusesCache(l) /\ SrReusesCache(l)]_vars

(***************************************************************************)
(* Claims about the session (checked under SpecSession)                    *)
(***************************************************************************)
\* C11: every artifact solveProblem returns, and every solution the session
\* holds, has a confidence among High, Medium and Low; a response whose
\* confidence is any other value makes the call throw.
C11_ConfidenceEnumerated ==
    /\ solveResult.kind = "returned" =>
          solveResult.artifact[1].confidence \in {"High", "Medium", "Low"}
    /\ solution # Nothing => solution[1].confidence \in {"High", "Medium", "Low"}
    /\ (/\ solveResult.body.form = "object"
        /\ solveResult.body.value[1].confidence \notin {"High", "Medium", "Low"})
          => solveResult.kind = "thrown"

\* the step in which the awaited solveProblem ends
SolveEnds == anPc = "awaitSolve" /\ anPc' = "idle"

\* C12: a solve whose response body is empty and a solve whose body does
\* not parse fail with the same error, the one of an empty response; no
\* artifact is produced and the session ends in ERROR.
C12_EmptyAndMalformedAlike ==
    [][(SolveEnds /\ solveResult'.body.form \in {"empty", "malformed"}) =>
          /\ solveResult'.kind = "thrown"
          /\ solveResult'.error = "No response from AI"
          /\ solveResult'.artifact = Nothing
          /\ solution' = Nothing
          /\ status' = "ERROR"]_vars

\* C13: in every reachable state at most one call of handleGenerateVideo has
\* not ended (it awaits its dialog, its job, or its retry).
C13_SingleVideoJob == BagCardinality(jobs) <= 1

\* a handler of the bag ends in this step
Ends(bag, h) == h \in BagToSet(bag) /\ bag' = Take(bag, h)

\* C14: when a job whose session was reset returns or throws, videoStatus
\* and videoUri stay what they were.
C14_DiscardedJobLeavesVideo ==
    [][\A j \in BagToSet(jobs) :
          (j.discarded /\ Ends(jobs, j)) =>
              (videoStatus' = videoStatus /\ videoUri' = videoUri)]_vars

VideoEdges ==
    {<<"idle", "generating">>, <<"generating", "completed">>,
     <<"generating", "error">>, <<"error", "generating">>}

\* C15: every change of videoStatus is an edge of the video state machine,
\* or a return to idle made by a reset or by the start of a solve.
C15_VideoStateMachine ==
    [][videoStatus' # videoStatus =>
          \/ <<videoStatus, videoStatus'>> \in VideoEdges
          \/ /\ videoStatus' = "idle"
             /\ status' # status
             /\ status' \in {"IDLE", "ANALYZING"}]_vars

\* everything but the record of the analyze action
BesidesAnCall ==
    <<psVars, hsVars, appVars, hvVars, svVars, srVars, file, isSearching, keyCheck,
      selectKey, anPc, solveResult, jobs, searches, searchOutcome>>

CallKept(c) ==
    /\ c.completed <= 1
    /\ c.flagAtStart => c.completed = 0
    /\ c.requested =>
          ((~c.flagAtStart /\ hasAistudio) => (c.completed = 1 /\ c.flagAtRequest))

\* a handler awaits the dialog before its first request
AtFirstDialog(h) == h.pc = "selectKey" /\ ~h.call.requested

\* C18: an action (solve, search, generate video) that began with the flag
\* false while the host offers the dialog has opened the dialog once, seen
\* it resolve and found the flag true when it issued its first request; an
\* action that began with the flag true opened no dialog before its request.
C18_KeySelectedBeforeRequest ==
    /\ CallKept(anCall.call)
    /\ anPc = "selectKey" => (~anCall.call.flagAtStart /\ hasAistudio)
    /\ \A j \in BagToSet(jobs) :
          /\ CallKept(j.call)
          /\ AtFirstDialog(j) => (~j.call.flagAtStart /\ hasAistudio)
    /\ \A s \in BagToSet(searches) :
          /\ CallKept(s.call)
          /\ AtFirstDialog(s) => (~s.call.flagAtStart /\ hasAistudio)

ViaDialog(c) == ~c.flagAtStart /\ c.completed = 1 /\ c.requested /\ c.flagAtRequest

\* the solve on screen and a video job that runs both began with the flag
\* false and sent their first request after the dialog
C18_Witness ==
    /\ hasAistudio
    /\ anCall.hadFile /\ ViaDialog(anCall.call)
    /\ \E j \in BagToSet(jobs) : ViaDialog(j.call)

\* the errors that signal an authorization problem: a 403, a "not found"
\* message, the missing credential
AuthorizationSignals ==
    {"403 Forbidden", "Requested entity was not found", "API Key not found"}

\* C19: when a solve fails the status becomes ERROR, and the flag is cleared
\* if the error is an authorization signal and left as it was if not.
C19_SolveFailureClearsFlag ==
    [][(SolveEnds /\ solveResult'.kind = "thrown") =>
          /\ status' = "ERROR"
          /\ solveResult'.error \in AuthorizationSignals => apiKeySelected' = FALSE
          /\ solveResult'.error \notin AuthorizationSignals =>
                 apiKeySelected' = apiKeySelected]_vars

\* a solve that sent its request with the flag true failed with a 403
C19_Witness ==
    /\ status = "ERROR"
    /\ solveResult.kind = "thrown" /\ solveResult.error = "403 Forbidden"
    /\ anCall.call.requested /\ anCall.call.flagAtRequest
    /\ ~apiKeySelected

\* C20: when performSearch fails with an authorization signal, the search
\* action clears the flag.
C20_SearchFailureClearsFlag ==
    [][\A s \in BagToSet(searches) :
          (/\ Ends(searches, s)
           /\ searchOutcome'.kind = "thrown"
           /\ searchOutcome'.error \in AuthorizationSignals) =>
              apiKeySelected' = FALSE]_vars

(***************************************************************************)
(* Claims about a failed translation (checked under SpecTranslate)         *)
(***************************************************************************)
\* C17: when a translation fails, the view that asked for it shows English
\* again, its cache is what it was, its translating flag is off, the text
\* shown is the source text, and errorMsg and status are untouched.
C17_TranslationFailureReverts ==
    [][/\ lastTranslate' = "solution" =>
              /\ svLanguage' = "English"
              /\ svTranslations' = svTranslations
              /\ svIsTranslating' = FALSE
              /\ ContentToDisplay' = solution[1].solutionMarkdown
              /\ errorMsg' = errorMsg /\ status' = status
       /\ lastTranslate' \in {"searchMain", "searchVerify"} =>
              /\ srLanguage' = "English"
              /\ srTranslations' = srTranslations
              /\ srIsTranslating' = FALSE
              /\ CurrentText' = searchResult[1].text
              /\ CurrentVerification' = searchResult[1].verification
              /\ errorMsg' = errorMsg /\ status' = status]_vars

\* the translation of the verification failed after the main text had been
\* translated, and nothing was cached
C17_Witness ==
    /\ lastTranslate = "searchVerify"
    /\ srLanguage = "English"
    /\ \A k \in CacheKeys : srTranslations[k] = None
    /\ srInFlight = <<>>

(***************************************************************************)
(* Claims about the failures of video generation (checked under SpecVideo) *)
(***************************************************************************)
\* the first attempt of the action ended with the "entity not found" signal
\* while the host offers no credential dialog
NotFoundWithoutDialog ==
    ~hasAistudio /\ firstError \in {EntityNotFoundMessage, "404 Not Found"}

\* C21: when window.aistudio is absent and the first attempt failed with the
\* "entity not found" signal, the action makes no second submission and
\* opens no dialog, and it ends with videoStatus 'error'.
C21_NoRetryWithoutCapability ==
    NotFoundWithoutDialog =>
        /\ hvCount = [submissions |-> 1, selections |-> 0]
        /\ hvPc = "idle" => videoStatus = "error"

\* a handle arrives that reports done and holds no video uri
DoneWithoutVideo ==
    /\ hvPc \in {"awaitSubmit", "awaitStatus"}
    /\ operation' # Nothing
    /\ operation'[1].done /\ operation'[1].uri = ""

\* C23: when the job reports done=true without a video uri,
\* generateExplanationVideo throws the no-video error and returns nothing;
\* the handler ends with videoStatus 'error', makes no retry (no further
\* submission, no dialog, the flag untouched) and leaves videoUri as it was.
C23_DoneWithoutVideoFails ==
    [][DoneWithoutVideo =>
          /\ gvResult' = [kind |-> "thrown", uri |-> Nothing, error |-> NoVideoMessage]
          /\ videoStatus' = "error"
          /\ hvPc' = "idle"
          /\ videoUri' = videoUri
          /\ hvCount' = hvCount
          /\ apiKeySelected' = apiKeySelected]_vars

\* the first attempt polled, then found the job done without a video
C23_Witness ==
    /\ attempt = 1
    /\ gvResult.error = NoVideoMessage
    /\ operation # Nothing /\ operation[1].done
    /\ gvCount.notDone > 0
    /\ videoStatus = "error"
    /\ videoUri = Nothing

\* a request of the running call is rejected with an error that carries no
\* "entity not found" / 404 signal
FailsWithoutSignal ==
    /\ hvPc \in {"awaitSubmit", "awaitStatus"}
    /\ gvResult'.kind = "thrown"
    /\ gvResult'.error \notin {EntityNotFoundMessage, "404 Not Found", NoVideoMessage}

Polling == hvPc \in {"awaitSubmit", "waiting", "awaitStatus"}

ErrorLeftByResetOnly ==
    [][(status = "ERROR" /\ status' # "ERROR") =>
          (status' = "IDLE" /\ file' = Nothing)]_vars

\* C22: the session leaves ERROR with the file of the failed solve still
\* selected, so that the solve can be issued again for it.
C22_RetryFromSameInputs ==
    [][(status = "ERROR" /\ status' # "ERROR") =>
          (file # Nothing /\ file' = file)]_vars

(***************************************************************************)
(* Claims about overlapping searches and the view of their results         *)
(* (checked under SpecOverlay)                                             *)
(***************************************************************************)

\* C30: the result that stays on display is that of the search issued
\* last, in whatever order the responses arrive: when no request has failed
\* and the last response in flight comes back with a result, it is the
\* response of the search issued last.
C30_LastResponseOfLatest ==
    [][(/\ searches # EmptyBag
        /\ searches' = EmptyBag
        /\ searchOutcome'.kind = "returned"
        /\ errorMsg' = "") =>
           \A s \in BagToSet(searches) : s.latest]_vars

\* C25: a cached translation is shown only for the text it was made from.
\* When the result on display is replaced by a different one, the view
\* shows the text and the verification of the new result; and what is
\* written to the cache of a view that shows a result is the translation
\* a handler made of that result.
C25_CacheFollowsSource ==
    [][/\ (searchResult' # searchResult /\ searchResult' # Nothing) =>
              /\ CurrentText' = searchResult'[1].text
              /\ CurrentVerification' = searchResult'[1].verification
       /\ (srTranslations' # srTranslations /\ searchResult' # Nothing) =>
              \E i \in 1..Len(srInFlight) :
                  /\ srInFlight[i].data = searchResult[1]
                  /\ srInFlight' = RemoveAt(srInFlight, i)]_vars

(***************************************************************************)
(* Claims about what reset and search leave alone (checked under           *)
(* SpecSession)                                                            *)
(***************************************************************************)

SearchStep == searches' # searches

\* the step in which the performSearch awaited by a handler throws
SearchThrew ==
    /\ BagCardinality(searches') < BagCardinality(searches)
    /\ searchOutcome'.kind = "thrown"

\* no step of a search touches the solve session
SearchKeepsSolveSession ==
    [][SearchStep => UNCHANGED <<status, file, solution, videoStatus, videoUri>>]_vars

\* C37: a search, whether it succeeds or fails, changes none of status,
\* file, solution, videoStatus and videoUri; a search that fails sets the
\* message, clears the searching indicator and leaves the search result
\* null.
C37_SearchFrame ==
    [][SearchStep =>
           /\ UNCHANGED <<status, file, solution, videoStatus, videoUri>>
           /\ SearchThrew =>
                  /\ errorMsg' = "Search failed. Please try again."
                  /\ isSearching' = FALSE
                  /\ searchResult' = Nothing]_vars

(***************************************************************************)
(* Claims about the history of the searches (checked under SpecSubmit)     *)
(***************************************************************************)

\* the handlers of the bag that wait for performSearch
Awaiting(bag) == {s \in BagToSet(bag) : s.pc = "awaitSearch"}
AwaitingCount(bag) ==
    LET RECURSIVE Sum(_)
        Sum(S) == IF S = {} THEN 0
                  ELSE LET s == CHOOSE x \in S : TRUE IN bag[s] + Sum(S \ {s})
    IN  Sum(Awaiting(bag))

\* the step in which a handler calls performSearch
SearchIssued == AwaitingCount(searches') > AwaitingCount(searches)

\* C33: a query is recorded when its search is issued, not when it succeeds.
\* The step that issues a request has a query that is not blank and puts the
\* trimmed query at the head of the history and of the store; the steps in
\* which a search returns or fails leave the history alone; so no request
\* and no entry of the history comes from a blank query.
C33_RecordedWhenIssued ==
    [][SearchStep =>
           IF SearchIssued
           THEN \E s \in Awaiting(searches') :
                    /\ s.latest
                    /\ Trim(s.query) # <<>>
                    /\ searchHistory' # <<>>
                    /\ searchHistory'[1] = Trim(s.query)
                    /\ storedHistory' = Some(Stringify(searchHistory'))
           ELSE UNCHANGED <<searchHistory, storedHistory>>]_vars

\* a search of a query typed with blanks around it has failed, and the
\* trimmed query is at the head of the history
C33_Witness ==
    /\ searchOutcome.kind = "thrown"
    /\ searches = EmptyBag
    /\ searchHistory # <<>>
    /\ searchHistory[1] = <<"w2">>
    /\ Len(searchHistory) = 2

(***************************************************************************)
(* Claims about the video of the session (checked under SpecSession)       *)
(***************************************************************************)

\* a view in which a completed video has its reference
HasVideoIfCompleted(view) == view.videoStatus = "completed" => view.videoUri # Nothing

\* the step makes the updates of the list, and the video is defined after
\* each of them
StepsThrough(updates) ==
    /\ VideoView' = Updated(VideoView, updates, Len(updates))
    /\ \A k \in 0..Len(updates) : HasVideoIfCompleted(Updated(VideoView, updates, k))

\* C34: in every state, the states between the single updates of a handler
\* included, videoStatus = 'completed' implies that videoUri is defined.
\* Every step that changes one of the two makes one of the lists of updates
\* of the handlers, and the implication holds after each update of the list.
C34_CompletedVideoDefined ==
    /\ [](videoStatus = "completed" => videoUri # Nothing)
    /\ [][VideoView' # VideoView =>
              \/ StepsThrough(ClearVideo)
              \/ videoUri' # Nothing /\ StepsThrough(ShowVideo(videoUri'[1]))
              \/ StepsThrough(<<SetVideoStatus("generating")>>)
              \/ StepsThrough(<<SetVideoStatus("error")>>)]_vars

\* a video completed by a job that a reset had left running: the two updates
\* of the job were made on the idle view of a session without a solution
C34_Witness ==
    /\ videoStatus = "completed"
    /\ videoUri # Nothing
    /\ status = "IDLE"
    /\ solution = Nothing

(***************************************************************************)
(* Claims about the failure of the retry (checked under SpecVideo)         *)
(***************************************************************************)

\* C35: the error of the retry is not inspected.  When the action ends in
\* 'error' after its retry failed, whatever the retry's error was, the flag
\* is what the re-prompt left: true with the capability, false without; the
\* handler has ended and made no further submission.
C35_RetryFailureNotInspected ==
    RetryFailed =>
        /\ videoStatus = "error"
        /\ apiKeySelected = hasAistudio
        /\ hvCount.submissions = 2
        /\ hvPc = "idle"

\* a retry that failed with "entity not found" after the dialog of the
\* re-prompt: the flag is still set
C35_Witness ==
    /\ RetryFailed
    /\ IsEntityNotFound(gvResult.error)
    /\ hasAistudio
    /\ apiKeySelected

(***************************************************************************)
(* Claims about the translations in flight (checked under SpecTranslate)   *)
(***************************************************************************)

\* the requests of the solution view for a language that have not returned
SvPending(l) == {i \in 1..Len(svInFlight) : svInFlight[i].lang = l}

\* C31: the solution view has at most one translation request for a
\* language in flight at a time.
C31_OneRequestPerLanguage ==
    \A l \in TargetLanguages : Cardinality(SvPending(l)) <= 1

\* the two entries of a language are both set, or both unset; a result
\* without verification has the entry of its text only
SrWholeEntries(l) ==
    LET hasText == srTranslations[TextKey(l)] # None
        hasVerify == srTranslations[VerifyKey(l)] # None
    IN  IF Truthy(searchResult[1].verification) THEN hasText = hasVerify
        ELSE ~hasVerify

\* a click on l that found no entry and could ask starts with the main text
SrTranslatesAgain(l) ==
    (/\ srLanguage # l /\ srLanguage' = l
     /\ ~Cached(srTranslations, TextKey(l))) =>
        /\ Len(srInFlight') = Len(srInFlight) + 1
        /\ srInFlight'[Len(srInFlight')].lang = l
        /\ srInFlight'[Len(srInFlight')].stage = "main"

\* C32: the search view writes the entries of a language all or nothing:
\* the entry of the main text and the entry of the verification are written
\* together, after both translations succeeded.  When the translation of the
\* verification fails after that of the main text succeeded, nothing is
\* written and the view shows English again; a later request for the
\* language, finding no entry, translates the main text again.
C32_CacheAllOrNothing ==
    /\ [](\A l \in TargetLanguages : SrWholeEntries(l))
    /\ [][/\ lastTranslate' = "searchVerify" =>
                 /\ srTranslations' = srTranslations
                 /\ srLanguage' = "English"
          /\ \A l \in TargetLanguages : SrTranslatesAgain(l)]_vars

\* the translation of the verification has failed after that of the main
\* text: nothing is cached, and the view is back to English
C32_Witness ==
    /\ lastTranslate = "searchVerify"
    /\ Truthy(searchResult[1].verification)
    /\ srLanguage = "English"
    /\ \A k \in CacheKeys : srTranslations[k] = None
    /\ srInFlight = <<>>

====
